---- MODULE Spec2Model ----
(***************************************************************************)
(* Registration / payment reconciliation workflow over the                 *)
(* course_registrations table (registration-handler, livestream-handler,   *)
(* application-approval, payment-webhook) and the referral events table     *)
(* (referral-handler).  Every handler invocation is                         *)
(* a sequence of steps, one per DynamoDB call; the steps of different       *)
(* invocations interleave.  Strings that the code normalises (emails) are   *)
(* sequences of one-character strings.                                      *)
(***************************************************************************)
EXTENDS Integers, Sequences, FiniteSets, TLC

\* table:    the course_registrations table, (course_id, email) -> item
\* events:   the referral events table, event_id -> item
\* inv:      the handler invocations in progress, one per slot
\* issued:   how many values uuid.uuid4() has returned
\* returned: the registration_ids the registration and livestream handlers
\*           have answered with (history)
VARIABLES table, events, inv, issued, returned

vars == <<table, events, inv, issued, returned>>

(* ---------------------------------------------------------------- bounds *)
\* number of uuid4() values the handlers may draw in one behaviour
MaxIds == 2

Procs == {1, 2}
Ids == 1 .. MaxIds
\* two readings of datetime.utcnow().isoformat()
Times == {"t1", "t2"}

(* ------------------------------------------------------- values and inputs *)
\* a JSON key that is missing / Python None, for plain-string fields
Absent == "None"
\* the same for fields that hold a character sequence
NoStr == <<"None">>
\* body.get("applicant_id") / client_reference_id when missing
NoId == 0

EA == <<"a", "@", "x">>
EAup == <<"A", "@", "X">>
EB == <<"b", "@", "x">>
EAmix == <<"a", "@", "X">>
EApad == <<" ", "A", "@", "x", " ">>
Blank == <<" ">>

DefaultCourse == "01_ai_automation_for_non_coders"
LivestreamCourse == "tax-livestream-01"
TestCourse == "test-course"

valid_course_ids == {DefaultCourse, TestCourse, LivestreamCourse}

LowerChar(c) ==
    CASE c = "A" -> "a"
      [] c = "B" -> "b"
      [] c = "X" -> "x"
      [] OTHER -> c

\* faulty variant: the lower() call left out
LowerKept(s) == s

\* str.lower()
Lower(s) == [i \in DOMAIN s |-> LowerChar(s[i])]

RECURSIVE LStrip(_)
LStrip(s) == IF s # <<>> /\ Head(s) = " " THEN LStrip(Tail(s)) ELSE s

RECURSIVE RStrip(_)
RStrip(s) ==
    IF s # <<>> /\ s[Len(s)] = " " THEN RStrip(SubSeq(s, 1, Len(s) - 1)) ELSE s

\* str.strip()
Strip(s) == RStrip(LStrip(s))

\* Python truthiness of an optional string taken with body.get(...)
Truthy(v) == v # Absent /\ v # ""

TruthySeq(s) == s # NoStr /\ s # <<>>

(* ------------------------------------------------------------ the table *)
Key(course_id, email) == <<course_id, email>>

HasItem(k) == k \in DOMAIN table

\* faulty variant: a put that keeps the item the key already holds
PutItemIfAbsent(t, item) ==
    LET k == Key(item.course_id, item.email)
    IN  [x \in DOMAIN t \cup {k} |-> IF x \in DOMAIN t THEN t[x] ELSE item]

\* table.put_item(Item=item): the item replaces whatever the key held
PutItem(t, item) ==
    LET k == Key(item.course_id, item.email)
    IN  [x \in DOMAIN t \cup {k} |-> IF x = k THEN item ELSE t[x]]

\* faulty variant: an update that stores only the key and the named attributes
UpdateItemPut(t, k, attrs) ==
    [x \in DOMAIN t \cup {k} |->
        IF x = k THEN attrs @@ [course_id |-> k[1], email |-> k[2]] ELSE t[x]]

\* table.update_item(Key=k, UpdateExpression="SET ..."): the named attributes
\* are set, the others kept; a key without an item gets a new item
UpdateItem(t, k, attrs) ==
    LET old == IF k \in DOMAIN t THEN t[k] ELSE [course_id |-> k[1], email |-> k[2]]
    IN  [x \in DOMAIN t \cup {k} |-> IF x = k THEN attrs @@ old ELSE t[x]]

\* faulty variant: the filter on registration_id left out
ItemsAny(t, id) == DOMAIN t

\* scan / index query on registration_id: the keys of the matching items
ItemsWithId(t, id) == {k \in DOMAIN t : t[k].registration_id = id}

(* ------------------------------------------------------- invocation slots *)
\* Every slot holds the local variables of one invocation: pc (where it is),
\* kind (which handler), req (the event), resp (the answer once pc = "done"),
\* ops (the table calls made so far), wrote (a table write went through),
\* fx / fxfail (the side effects attempted / failed).
Idle == [pc |-> "idle", kind |-> "none"]

Resp(status, error) == [status |-> status, error |-> error, registration_id |-> NoId]

RespId(status, id) == [status |-> status, error |-> "", registration_id |-> id]

\* the referral recorder's 200 answer
RespEvent(status, id) ==
    [status |-> status, error |-> "", registration_id |-> NoId, event_id |-> id]

Free(p) == inv[p].pc \in {"idle", "done"}

\* invocations that have passed validation and will draw a uuid4()
Drawing ==
    {p \in Procs : inv[p].pc \notin {"idle", "done"} /\ inv[p].kind \in {"reg", "live", "ref"}}

IdLeft == issued + Cardinality(Drawing) < MaxIds

Init ==
    /\ table = <<>>
    /\ events = <<>>
    /\ inv = [p \in Procs |-> Idle]
    /\ issued = 0
    /\ returned = {}

\* What a handler keeps of an item it has read: the attributes it uses later
\* (course_id, email, name, registration_id); the status it saw goes to seen.
Found(item) ==
    [course_id |-> item.course_id, email |-> item.email, name |-> item.name,
     registration_id |-> item.registration_id]

NoFound == [course_id |-> Absent, email |-> NoStr, name |-> NoStr, registration_id |-> NoId]

(* ------------------------------------------- registration-handler.py *)
N1 == <<"N">>
N2 == <<"M">>
N1pad == <<" ", "N">>

\* the event: method is event["httpMethod"], which the handler never reads
RegReq(method, body_kind, email, course_id, name, diet, applicant_id) ==
    [method |-> method, body_kind |-> body_kind, email |-> email, course_id |-> course_id,
     name |-> name, dietary_requirements |-> diet, applicant_id |-> applicant_id]

\* the local variables of one registration-handler invocation
RegLocals(req, pc, resp) ==
    [pc |-> pc, kind |-> "reg", req |-> req,
     email |-> IF req.body_kind = "json" /\ req.email # NoStr THEN Lower(req.email) ELSE NoStr,
     seen |-> "unread", ops |-> {}, wrote |-> FALSE, fx |-> {}, fxfail |-> {},
     resp |-> resp]

NoResp == Resp(0, "")

CourseOk(course_id) == course_id # Absent /\ course_id \in valid_course_ids

\* faulty variant: the allow-list check left out
RegValidateNoCourse(req) ==
    IF req.body_kind # "json" THEN Resp(500, "Internal server error")
    ELSE IF req.email = NoStr THEN Resp(500, "Internal server error")
    ELSE IF ~Truthy(req.dietary_requirements) THEN Resp(400, "missing_required_field")
    ELSE NoResp

\* lines 19-56: what the handler answers before its first table call
\* (NoResp: the submission passes)
RegValidate(req) ==
    IF req.body_kind # "json" THEN Resp(500, "Internal server error")
    ELSE IF req.email = NoStr THEN Resp(500, "Internal server error")
    ELSE IF ~Truthy(req.dietary_requirements) THEN Resp(400, "missing_required_field")
    ELSE IF ~CourseOk(req.course_id) THEN Resp(400, "invalid_course_id")
    ELSE NoResp

Finish(l, resp) == [l EXCEPT !.pc = "done", !.resp = resp]

StartReg(p, req) ==
    /\ Free(p)
    /\ LET r == RegValidate(req)
       IN  IF r # NoResp
           THEN inv' = [inv EXCEPT ![p] = RegLocals(req, "done", r)]
           ELSE /\ IdLeft
                /\ inv' = [inv EXCEPT ![p] =
                       RegLocals(req, IF req.applicant_id # NoId THEN "scan" ELSE "get", NoResp)]
    /\ UNCHANGED <<table, events, issued, returned>>

\* faulty variant: the application's email not compared
AppCheckAnyEmail(application, email) ==
    IF application.payment_status # "pending" THEN Resp(400, "invalid_application_status")
    ELSE NoResp

\* lines 84, 100: the checks on the application found for applicant_id
AppCheck(application, email) ==
    IF application.payment_status # "pending" THEN Resp(400, "invalid_application_status")
    ELSE IF application.email # email THEN Resp(400, "email_mismatch")
    ELSE NoResp

\* lines 59-130: table.scan for the application named by applicant_id
RegScan(p, dbok) ==
    /\ inv[p].pc = "scan" /\ inv[p].kind = "reg"
    /\ LET l == [inv[p] EXCEPT !.ops = @ \cup {"scan"}]
           found == ItemsWithId(table, l.req.applicant_id)
       IN  IF ~dbok
           THEN inv' = [inv EXCEPT ![p] = Finish(l, Resp(500, "application_verification_error"))]
           ELSE IF found = {}
           THEN inv' = [inv EXCEPT ![p] = Finish(l, Resp(400, "invalid_application"))]
           ELSE \E k \in found :
                  LET r == AppCheck(table[k], l.email)
                  IN  inv' = [inv EXCEPT ![p] =
                                 IF r # NoResp THEN Finish(l, r) ELSE [l EXCEPT !.pc = "get"]]
    /\ UNCHANGED <<table, events, issued, returned>>

\* faulty variant: any existing registration blocks the submission
RegBlockedAny(item) == TRUE

\* line 143: the existing registration blocks the submission
RegBlocked(item) == item.payment_status = "paid"

\* lines 133-161: table.get_item for (course_id, email); an exception of the
\* call is logged and the handler goes on to the write
RegGet(p, dbok) ==
    /\ inv[p].pc = "get" /\ inv[p].kind = "reg"
    /\ LET l == [inv[p] EXCEPT !.ops = @ \cup {"get"}]
           k == Key(l.req.course_id, l.email)
       IN  IF ~dbok
           THEN inv' = [inv EXCEPT ![p] = [l EXCEPT !.pc = "put", !.seen = "failed"]]
           ELSE IF ~HasItem(k)
           THEN inv' = [inv EXCEPT ![p] = [l EXCEPT !.pc = "put", !.seen = "none"]]
           ELSE IF RegBlocked(table[k])
           THEN inv' = [inv EXCEPT ![p] =
                           Finish([l EXCEPT !.seen = table[k].payment_status],
                                  Resp(400, "email_already_registered"))]
           ELSE inv' = [inv EXCEPT ![p] =
                           [l EXCEPT !.pc = "put", !.seen = table[k].payment_status]]
    /\ UNCHANGED <<table, events, issued, returned>>

\* faulty variant: uuid4() returning the same value every time
NewIdFixed(n) == 1

\* uuid.uuid4(): a value no earlier call returned
NewId(n) == n + 1

\* lines 166-180 (phone, company, job_title and automation_interest are copied
\* from the body like name and are not modelled, nor is registration_date, a
\* timestamp no handler reads)
RegItem(l, id) ==
    [course_id |-> l.req.course_id, email |-> l.email, registration_id |-> id,
     name |-> l.req.name, referral_source |-> "direct",
     dietary_requirements |-> l.req.dietary_requirements,
     payment_status |-> "pending", stripe_session_id |-> ""]

\* lines 163-219: build the item, table.put_item, the CompleteRegistration
\* event (its failure is caught), the 200 answer
RegPut(p, dbok, metaok) ==
    /\ inv[p].pc = "put" /\ inv[p].kind = "reg"
    /\ LET l == inv[p]
           id == NewId(issued)
       IN  IF l.req.name = NoStr
           THEN /\ inv' = [inv EXCEPT ![p] = Finish(l, Resp(500, "Internal server error"))]
                /\ UNCHANGED <<table, events, issued, returned>>
           ELSE IF ~dbok
           THEN /\ inv' = [inv EXCEPT ![p] =
                       Finish([l EXCEPT !.ops = @ \cup {"put"}],
                              Resp(500, "Internal server error"))]
                /\ UNCHANGED <<table, events, issued, returned>>
           ELSE /\ table' = PutItem(table, RegItem(l, id))
                /\ issued' = id
                /\ returned' = returned \cup {id}
                /\ UNCHANGED events
                /\ inv' = [inv EXCEPT ![p] =
                       Finish([l EXCEPT !.ops = @ \cup {"put"}, !.wrote = TRUE,
                                        !.fx = {"meta"},
                                        !.fxfail = IF metaok THEN {} ELSE {"meta"}],
                              RespId(200, id))]

(* --------------------------------------------- livestream-handler.py *)
LiveReq(method, body_kind, name, email, registration_type) ==
    [method |-> method, body_kind |-> body_kind, name |-> name, email |-> email,
     registration_type |-> registration_type]

\* line 61: not body.get(field) or not body[field].strip()
FieldMissing(v) == ~TruthySeq(v) \/ Strip(v) = <<>>

\* lines 34-66: what the handler answers before its first table call
LiveValidate(req) ==
    IF req.method = "OPTIONS" THEN Resp(200, "")
    ELSE IF req.body_kind = "none" THEN Resp(400, "Missing request body")
    ELSE IF req.body_kind = "invalid" THEN Resp(400, "Invalid JSON in request body")
    ELSE IF FieldMissing(req.name) THEN Resp(400, "Missing required field: name")
    ELSE IF FieldMissing(req.email) THEN Resp(400, "Missing required field: email")
    ELSE NoResp

\* line 73: body.get('registration_type', 'livestream')
LiveType(req) ==
    IF req.registration_type = Absent THEN "livestream" ELSE req.registration_type

\* lines 75-82
LiveCourse(registration_type) ==
    IF registration_type = "application" THEN DefaultCourse ELSE LivestreamCourse

\* faulty variant: an application stored as a paid livestream registration
LiveStatusPaid(registration_type) == "paid"

LiveStatus(registration_type) ==
    IF registration_type = "application" THEN "applied" ELSE "paid"

LiveLocals(req, pc, resp) ==
    [pc |-> pc, kind |-> "live", req |-> req,
     email |-> IF LiveValidate(req) = NoResp THEN Lower(Strip(req.email)) ELSE NoStr,
     seen |-> "unread", ops |-> {}, wrote |-> FALSE, fx |-> {}, fxfail |-> {},
     resp |-> resp]

StartLive(p, req) ==
    /\ Free(p)
    /\ LET r == LiveValidate(req)
       IN  IF r # NoResp
           THEN inv' = [inv EXCEPT ![p] = LiveLocals(req, "done", r)]
           ELSE /\ IdLeft
                /\ inv' = [inv EXCEPT ![p] = LiveLocals(req, "get", NoResp)]
    /\ UNCHANGED <<table, events, issued, returned>>

\* line 93: "Item" in existing_item
LiveBlocked(k) == HasItem(k)

\* lines 85-103: table.get_item; an exception of the call is logged and the
\* handler goes on to the write
LiveGet(p, dbok) ==
    /\ inv[p].pc = "get" /\ inv[p].kind = "live"
    /\ LET l == [inv[p] EXCEPT !.ops = @ \cup {"get"}]
           k == Key(LiveCourse(LiveType(l.req)), l.email)
       IN  IF ~dbok
           THEN inv' = [inv EXCEPT ![p] = [l EXCEPT !.pc = "put", !.seen = "failed"]]
           ELSE IF LiveBlocked(k)
           THEN inv' = [inv EXCEPT ![p] =
                           Finish([l EXCEPT !.seen = table[k].payment_status],
                                  Resp(409, "Registration already exists for this email"))]
           ELSE inv' = [inv EXCEPT ![p] = [l EXCEPT !.pc = "put", !.seen = "none"]]
    /\ UNCHANGED <<table, events, issued, returned>>

\* lines 110-137 (the application's other profile fields are copied from the
\* body and are not modelled, nor is registration_date)
LiveItem(l, id) ==
    LET t == LiveType(l.req)
        base == [course_id |-> LiveCourse(t), email |-> l.email, registration_id |-> id,
                 name |-> Strip(l.req.name), payment_status |-> LiveStatus(t),
                 payment_amount |-> 0,
                 registration_type |-> t, stripe_session_id |-> ""]
    IN  IF t = "application"
        THEN [referral_source |-> "applied", dietary_requirements |-> "none"] @@ base
        ELSE base

\* lines 143-182: the confirmation email, the admin notification and the
\* CompleteRegistration event are each in a try of their own: all three are
\* attempted whichever of them fail
LiveEffects(fail) == {"user_email", "admin_email", "meta"}

\* faulty variant: the side effects outside their try blocks
LiveAnswerUncaught(fail, id) ==
    IF fail # {} THEN Resp(500, "Internal server error") ELSE RespId(200, id)

\* faulty variant: the duplicate answered after the write instead of before
LiveAnswerLate(fail, id) == Resp(409, "Registration already exists for this email")

\* lines 184-191: the answer after the write
LiveAnswer(fail, id) == RespId(200, id)

\* lines 106-191: table.put_item, then the confirmation email, the admin
\* notification and the CompleteRegistration event, each in its own try
LivePut(p, dbok, fail) ==
    /\ inv[p].pc = "put" /\ inv[p].kind = "live"
    /\ LET l == [inv[p] EXCEPT !.ops = @ \cup {"put"}]
           id == NewId(issued)
       IN  IF ~dbok
           THEN /\ inv' = [inv EXCEPT ![p] = Finish(l, Resp(500, "Internal server error"))]
                /\ UNCHANGED <<table, events, issued, returned>>
           ELSE /\ table' = PutItem(table, LiveItem(l, id))
                /\ issued' = id
                /\ returned' = returned \cup {id}
                /\ UNCHANGED events
                /\ inv' = [inv EXCEPT ![p] =
                       Finish([l EXCEPT !.wrote = TRUE,
                                        !.fx = LiveEffects(fail),
                                        !.fxfail = fail \cap LiveEffects(fail)],
                              LiveAnswer(fail, id))]

(* -------------------------------------------- application-approval.py *)
ApprReq(method, body_kind, application_id) ==
    [method |-> method, body_kind |-> body_kind, application_id |-> application_id]

\* lines 34-65
ApprValidate(req) ==
    IF req.method = "OPTIONS" THEN Resp(200, "")
    ELSE IF req.body_kind = "none" THEN Resp(400, "Missing request body")
    ELSE IF req.body_kind = "invalid" THEN Resp(400, "Invalid JSON in request body")
    ELSE IF req.application_id = NoId THEN Resp(400, "Missing application_id")
    ELSE NoResp

ApprLocals(req, pc, resp) ==
    [pc |-> pc, kind |-> "appr", req |-> req, item |-> NoFound, seen |-> "unread",
     ops |-> {}, wrote |-> FALSE, fx |-> {}, fxfail |-> {}, resp |-> resp]

StartAppr(p, req) ==
    /\ Free(p)
    /\ LET r == ApprValidate(req)
       IN  inv' = [inv EXCEPT ![p] =
                      ApprLocals(req, IF r # NoResp THEN "done" ELSE "scan", r)]
    /\ UNCHANGED <<table, events, issued, returned>>

\* faulty variant: the status check left out
IsAppliedAny(application) == TRUE

\* line 92
IsApplied(application) == application.payment_status = "applied"

\* lines 68-97: table.scan for the application, then the status check
ApprScan(p, dbok) ==
    /\ inv[p].pc = "scan" /\ inv[p].kind = "appr"
    /\ LET l == [inv[p] EXCEPT !.ops = @ \cup {"scan"}]
           found == ItemsWithId(table, l.req.application_id)
       IN  IF ~dbok
           THEN inv' = [inv EXCEPT ![p] = Finish(l, Resp(500, "Database error"))]
           ELSE IF found = {}
           THEN inv' = [inv EXCEPT ![p] = Finish(l, Resp(404, "Application not found"))]
           ELSE \E k \in found :
                  LET m == [l EXCEPT !.item = Found(table[k]),
                                     !.seen = table[k].payment_status]
                  IN  inv' = [inv EXCEPT ![p] =
                                 IF IsApplied(table[k])
                                 THEN [m EXCEPT !.pc = "update"]
                                 ELSE Finish(m, Resp(400, "Application is not in applied status"))]
    /\ UNCHANGED <<table, events, issued, returned>>

\* lines 100-147: table.update_item on the application's key, then the
\* acceptance email in its own try
ApprUpdate(p, dbok, mailok, now) ==
    /\ inv[p].pc = "update" /\ inv[p].kind = "appr"
    /\ LET l == [inv[p] EXCEPT !.ops = @ \cup {"update"}]
       IN  IF ~dbok
           THEN /\ inv' = [inv EXCEPT ![p] =
                              Finish(l, Resp(500, "Failed to update application status"))]
                /\ UNCHANGED table
           ELSE /\ table' = UpdateItem(table, Key(l.item.course_id, l.item.email),
                                       [payment_status |-> "pending", approval_date |-> now])
                /\ inv' = [inv EXCEPT ![p] =
                       Finish([l EXCEPT !.wrote = TRUE, !.fx = {"user_email"},
                                        !.fxfail = IF mailok THEN {} ELSE {"user_email"}],
                              RespId(200, l.req.application_id))]
    /\ UNCHANGED <<events, issued, returned>>

(* ------------------------------------------------- payment-webhook.py *)
HookReq(signature, payload, type, client_reference_id, email, amount_total, session_id) ==
    [signature |-> signature, payload |-> payload, type |-> type,
     client_reference_id |-> client_reference_id, email |-> email,
     amount_total |-> amount_total, session_id |-> session_id]

\* faulty variant: the event is trusted without construct_event's verification
HookValidateUnverified(req) ==
    IF req.signature = Absent THEN Resp(400, "Missing signature header")
    ELSE IF req.payload # "json" THEN Resp(400, "Invalid payload")
    ELSE IF req.type # "checkout.session.completed" THEN Resp(200, "")
    ELSE NoResp

\* lines 32-46 and 186-202: the signature header, stripe.Webhook.construct_event
\* (it raises SignatureVerificationError or ValueError) and the event type
HookValidate(req) ==
    IF req.signature = Absent THEN Resp(400, "Missing signature header")
    ELSE IF req.signature # "valid" THEN Resp(400, "Invalid signature")
    ELSE IF req.payload # "json" THEN Resp(400, "Invalid payload")
    ELSE IF req.type # "checkout.session.completed" THEN Resp(200, "")
    ELSE NoResp

HookLocals(req, pc, resp) ==
    [pc |-> pc, kind |-> "hook", req |-> req, customer_email |-> Lower(req.email),
     course_id |-> Absent, item |-> NoFound, seen |-> "unread",
     ops |-> {}, wrote |-> FALSE, fx |-> {}, fxfail |-> {}, resp |-> resp]

StartHook(p, req) ==
    /\ Free(p)
    /\ LET r == HookValidate(req)
       IN  inv' = [inv EXCEPT ![p] =
                      HookLocals(req, IF r # NoResp THEN "done"
                                      ELSE IF req.client_reference_id # NoId THEN "query"
                                      ELSE "get", r)]
    /\ UNCHANGED <<table, events, issued, returned>>

\* lines 53-78: table.query on registration-id-index
HookQuery(p, dbok) ==
    /\ inv[p].pc = "query" /\ inv[p].kind = "hook"
    /\ LET l == [inv[p] EXCEPT !.ops = @ \cup {"query"}]
           found == ItemsWithId(table, l.req.client_reference_id)
       IN  IF ~dbok
           THEN inv' = [inv EXCEPT ![p] = Finish(l, Resp(500, "Database query failed"))]
           ELSE IF found = {}
           THEN inv' = [inv EXCEPT ![p] =
                           Finish([l EXCEPT !.seen = "none"], Resp(404, "Registration not found"))]
           ELSE \E k \in found :
                  inv' = [inv EXCEPT ![p] =
                             [l EXCEPT !.pc = "update", !.item = Found(table[k]),
                                       !.seen = table[k].payment_status,
                                       !.course_id = table[k].course_id]]
    /\ UNCHANGED <<table, events, issued, returned>>

\* faulty variant: the fallback looks in the livestream course
FallbackKeyLivestream(customer_email) == Key(LivestreamCourse, customer_email)

\* lines 82-89: the key of the fallback lookup
FallbackKey(customer_email) == Key(DefaultCourse, customer_email)

\* lines 80-106: table.get_item in the default course by billing email
HookGet(p, dbok) ==
    /\ inv[p].pc = "get" /\ inv[p].kind = "hook"
    /\ LET l == [inv[p] EXCEPT !.ops = @ \cup {"get"}, !.course_id = DefaultCourse]
           k == FallbackKey(l.customer_email)
       IN  IF ~dbok
           THEN inv' = [inv EXCEPT ![p] = Finish(l, Resp(500, "Database query failed"))]
           ELSE IF ~HasItem(k)
           THEN inv' = [inv EXCEPT ![p] =
                           Finish([l EXCEPT !.seen = "none"], Resp(404, "Registration not found"))]
           ELSE inv' = [inv EXCEPT ![p] =
                           [l EXCEPT !.pc = "update", !.item = Found(table[k]),
                                     !.seen = table[k].payment_status]]
    /\ UNCHANGED <<table, events, issued, returned>>

\* line 119: Decimal(str(amount_total)) / Decimal("100"), as whole units and
\* hundredths
CentsToDollars(amount_total) ==
    [units |-> amount_total \div 100, hundredths |-> amount_total % 100]

\* faulty variant: the payment attributes set without the status
PaidAttrsUnpaid(req, now) ==
    [payment_date |-> now, stripe_session_id |-> req.session_id,
     amount_paid |-> CentsToDollars(req.amount_total)]

\* lines 114-120
PaidAttrs(req, now) ==
    [payment_status |-> "paid", payment_date |-> now,
     stripe_session_id |-> req.session_id,
     amount_paid |-> CentsToDollars(req.amount_total)]

\* lines 123-182: the two ses_client.send_email calls are not in a try (an
\* exception ends the handler in the outer except), the Purchase event is
HookEffects(fail) ==
    IF "user_email" \in fail THEN {"user_email"}
    ELSE IF "admin_email" \in fail THEN {"user_email", "admin_email"}
    ELSE {"user_email", "admin_email", "meta"}

HookAnswer(fail) ==
    IF fail \cap {"user_email", "admin_email"} # {}
    THEN Resp(500, "Internal server error")
    ELSE Resp(200, "")

\* lines 108-189, 203-208: table.update_item on (course_id, item["email"]),
\* the emails, the Purchase event, the answer
HookUpdate(p, dbok, fail, now) ==
    /\ inv[p].pc = "update" /\ inv[p].kind = "hook"
    /\ LET l == [inv[p] EXCEPT !.ops = @ \cup {"update"}]
       IN  IF ~dbok
           THEN /\ inv' = [inv EXCEPT ![p] = Finish(l, Resp(500, "Internal server error"))]
                /\ UNCHANGED table
           ELSE /\ table' = UpdateItem(table, Key(l.course_id, l.item.email),
                                       PaidAttrs(l.req, now))
                /\ inv' = [inv EXCEPT ![p] =
                       Finish([l EXCEPT !.wrote = TRUE, !.fx = HookEffects(fail),
                                        !.fxfail = fail \cap HookEffects(fail)],
                              HookAnswer(fail))]
    /\ UNCHANGED <<events, issued, returned>>

(* ------------------------------------------------- referral-handler.py *)
\* line 40: the longest event_name / referral_code accepted
MaxFieldLen == 100

Rep(c, n) == [i \in 1 .. n |-> c]

Click == <<"c", "l", "i", "c", "k">>
CodeGood == <<"a", "b", "c", "-", "1", "2", "3">>
CodeBad == <<"a", "b", "c", " ", "1", "2", "3", "!">>
CodeNewline == <<"a", "b", "c", "\n">>

\* the character class [a-zA-Z0-9_-]
CodeChars ==
    {"a", "b", "c", "d", "e", "f", "g", "h", "i", "j", "k", "l", "m",
     "n", "o", "p", "q", "r", "s", "t", "u", "v", "w", "x", "y", "z",
     "A", "B", "C", "D", "E", "F", "G", "H", "I", "J", "K", "L", "M",
     "N", "O", "P", "Q", "R", "S", "T", "U", "V", "W", "X", "Y", "Z",
     "0", "1", "2", "3", "4", "5", "6", "7", "8", "9", "_", "-"}

\* faulty variant: the format test left out
CodeMatchAny(s) == TRUE

\* line 55: re.match(r'^[a-zA-Z0-9_-]+$', referral_code); without re.MULTILINE
\* "$" matches at the end of the string and also just before a newline that
\* ends the string
CodeMatch(s) ==
    LET core == IF s # <<>> /\ s[Len(s)] = "\n" THEN SubSeq(s, 1, Len(s) - 1) ELSE s
    IN  core # <<>> /\ \A i \in DOMAIN core : core[i] \in CodeChars

RefReq(method, body_kind, event_name, referral_code) ==
    [method |-> method, body_kind |-> body_kind, event_name |-> event_name,
     referral_code |-> referral_code]

\* lines 13-23: body.get(field); without a body the event itself is searched
\* and holds neither field
RefField(req, v) == IF req.body_kind = "json" THEN v ELSE NoStr

\* lines 13-66: what the handler answers before its table call (json.loads
\* raising ends in the outer except)
RefValidate(req) ==
    LET event_name == RefField(req, req.event_name)
        referral_code == RefField(req, req.referral_code)
    IN  IF req.body_kind = "invalid" THEN Resp(500, "Internal server error")
        ELSE IF ~TruthySeq(event_name) \/ ~TruthySeq(referral_code)
        THEN Resp(400, "Missing required fields: event_name and referral_code")
        ELSE IF Len(referral_code) > MaxFieldLen \/ Len(event_name) > MaxFieldLen
        THEN Resp(400, "Field values too long")
        ELSE IF ~CodeMatch(referral_code) THEN Resp(400, "Invalid referral code format")
        ELSE NoResp

RefLocals(req, pc, resp) ==
    [pc |-> pc, kind |-> "ref", req |-> req, seen |-> "unread",
     ops |-> {}, wrote |-> FALSE, fx |-> {}, fxfail |-> {}, resp |-> resp]

StartRef(p, req) ==
    /\ Free(p)
    /\ LET r == RefValidate(req)
       IN  IF r # NoResp
           THEN inv' = [inv EXCEPT ![p] = RefLocals(req, "done", r)]
           ELSE /\ IdLeft
                /\ inv' = [inv EXCEPT ![p] = RefLocals(req, "put", NoResp)]
    /\ UNCHANGED <<table, events, issued, returned>>

\* lines 79-86 (timestamp, user_agent and source_ip are metadata no handler
\* reads and are not modelled)
RefItem(req, id) ==
    [event_id |-> id, event_name |-> req.event_name, referral_code |-> req.referral_code]

\* lines 69-113: uuid4, table.put_item on the referral events table, the answer
RefPut(p, dbok) ==
    /\ inv[p].pc = "put" /\ inv[p].kind = "ref"
    /\ LET l == [inv[p] EXCEPT !.ops = @ \cup {"put"}]
           id == NewId(issued)
       IN  IF ~dbok
           THEN /\ inv' = [inv EXCEPT ![p] = Finish(l, Resp(500, "Internal server error"))]
                /\ UNCHANGED <<events, issued>>
           ELSE /\ events' = [x \in DOMAIN events \cup {id} |->
                                 IF x = id THEN RefItem(l.req, id) ELSE events[x]]
                /\ issued' = id
                /\ inv' = [inv EXCEPT ![p] =
                              Finish([l EXCEPT !.wrote = TRUE], RespEvent(200, id))]
    /\ UNCHANGED <<table, returned>>

(* --------------------------------------------------------- the system *)
Effects == {"user_email", "admin_email", "meta"}

\* what the collaborators may do in every specification but the concurrent
\* one: any set of side effects fails, the clock gives either reading
AnyFault == [fails |-> SUBSET Effects, times |-> Times]

Payments == {<<5000, "cs_1">>, <<61200, "cs_2">>}

\* the events of the sequential specification: every valid submission over
\* one address and two courses, and one event per early return
RegReqs ==
    {RegReq("POST", "json", EAup, c, n, "none", a) :
        c \in {DefaultCourse, LivestreamCourse}, n \in {N1, N2}, a \in {NoId} \cup Ids}
    \cup {RegReq("POST", "json", EB, DefaultCourse, N1, "none", a) : a \in Ids}
    \cup {RegReq("POST", "json", EAup, DefaultCourse, NoStr, "none", NoId),
          RegReq("POST", "json", EAup, "invalid-course-id", N1, "none", NoId),
          RegReq("POST", "json", EAup, DefaultCourse, N1, Absent, NoId),
          RegReq("OPTIONS", "none", NoStr, Absent, NoStr, Absent, NoId)}

LiveReqs ==
    {LiveReq("POST", "json", N1pad, EApad, t) : t \in {Absent, "livestream", "application"}}
    \cup {LiveReq("POST", "json", N1pad, Blank, Absent),
          LiveReq("OPTIONS", "none", NoStr, NoStr, Absent)}

ApprReqs ==
    {ApprReq("POST", "json", a) : a \in {NoId} \cup Ids}
    \cup {ApprReq("OPTIONS", "none", NoId)}

HookReqs ==
    {HookReq("valid", "json", "checkout.session.completed", r, EAup, pay[1], pay[2]) :
        r \in {NoId} \cup Ids, pay \in Payments}
    \cup {HookReq(g, "json", "checkout.session.completed", 1, EAup, 5000, "cs_1") :
            g \in {Absent, "tampered"}}
    \cup {HookReq("valid", "garbage", "checkout.session.completed", 1, EAup, 5000, "cs_1"),
          HookReq("valid", "json", "invoice.paid", 1, EAup, 5000, "cs_1")}

RefReqs ==
    {RefReq("POST", "json", Click, CodeGood),
     RefReq("POST", "json", Click, CodeBad),
     RefReq("OPTIONS", "none", NoStr, NoStr)}

Inputs ==
    [reg |-> RegReqs, live |-> LiveReqs, appr |-> ApprReqs, hook |-> HookReqs,
     ref |-> RefReqs] @@ AnyFault

\* an invocation arrives in slot p; I gives the events it may be started with
Arrives(p, I) ==
    \/ \E req \in I.reg : StartReg(p, req)
    \/ \E req \in I.live : StartLive(p, req)
    \/ \E req \in I.appr : StartAppr(p, req)
    \/ \E req \in I.hook : StartHook(p, req)

\* the invocation in slot p makes its next call; I gives the sets of side
\* effects that may fail together (I.fails) and the clock readings (I.times).
\* Every table call may fail (dbok).
Proceeds(p, I) ==
    \/ \E dbok \in BOOLEAN : RegScan(p, dbok)
    \/ \E dbok \in BOOLEAN : RegGet(p, dbok)
    \/ \E dbok \in BOOLEAN, fail \in I.fails : RegPut(p, dbok, "meta" \notin fail)
    \/ \E dbok \in BOOLEAN : LiveGet(p, dbok)
    \/ \E dbok \in BOOLEAN, fail \in I.fails : LivePut(p, dbok, fail)
    \/ \E dbok \in BOOLEAN : ApprScan(p, dbok)
    \/ \E dbok \in BOOLEAN, fail \in I.fails, now \in I.times :
          ApprUpdate(p, dbok, "user_email" \notin fail, now)
    \/ \E dbok \in BOOLEAN : HookQuery(p, dbok)
    \/ \E dbok \in BOOLEAN : HookGet(p, dbok)
    \/ \E dbok \in BOOLEAN, fail \in I.fails, now \in I.times : HookUpdate(p, dbok, fail, now)

\* one step of the invocation in slot p
Step(p, I) == Arrives(p, I) \/ Proceeds(p, I)

\* one step of a referral-handler invocation in slot p
RefStep(p, I) ==
    \/ \E req \in I.ref : StartRef(p, req)
    \/ \E dbok \in BOOLEAN : RefPut(p, dbok)

\* the registration workflow, one invocation at a time
Next == Step(1, Inputs)

Spec == Init /\ [][Next]_vars

\* the events of the wide-input specification: every combination of present,
\* empty and missing registration fields, and one event per other handler path
WideRegReqs ==
    {RegReq("POST", "json", e, c, n, d, a) :
        e \in {NoStr, EAup}, c \in {Absent, "invalid-course-id", DefaultCourse},
        n \in {NoStr, N1}, d \in {Absent, "", "none"}, a \in {NoId, 1}}
    \cup {RegReq(m, "none", NoStr, Absent, NoStr, Absent, NoId) : m \in {"POST", "OPTIONS"}}
    \cup {RegReq("OPTIONS", "json", EAup, DefaultCourse, N1, "none", NoId)}

\* every combination of missing, empty, well-formed, ill-formed and oversized
\* referral fields, a body that is not JSON, and a preflight
WideRefReqs ==
    {RefReq("POST", "json", n, c) :
        n \in {NoStr, <<>>, Click, Rep("e", MaxFieldLen), Rep("e", MaxFieldLen + 1)},
        c \in {NoStr, <<>>, CodeGood, CodeBad, CodeNewline, <<"\n">>,
               Rep("a", MaxFieldLen), Rep("a", MaxFieldLen + 1)}}
    \cup {RefReq("POST", "invalid", NoStr, NoStr),
          RefReq("OPTIONS", "none", NoStr, NoStr)}

WideInputs ==
    [reg |-> WideRegReqs,
     live |-> {LiveReq("POST", "json", N1pad, EApad, "application")},
     appr |-> {ApprReq("POST", "json", 1)},
     hook |-> {HookReq("valid", "json", "checkout.session.completed", r, EAup, 5000, "cs_1") :
                  r \in {NoId, 1}},
     ref |-> WideRefReqs] @@ AnyFault

NextWide == Step(1, WideInputs) \/ RefStep(1, WideInputs)

SpecWide == Init /\ [][NextWide]_vars

\* the events of the letter-case specification: the same address in three
\* spellings, each spelling with a name of its own
CaseInputs ==
    [reg |-> {RegReq("POST", "json", EA, DefaultCourse, N1, "none", NoId),
              RegReq("POST", "json", EAup, DefaultCourse, N2, "none", NoId),
              RegReq("POST", "json", EAmix, DefaultCourse, N2, "none", 1),
              RegReq("POST", "json", EAup, LivestreamCourse, N2, "none", NoId)},
     live |-> {LiveReq("POST", "json", <<"N">>, EA, t) : t \in {Absent, "application"}}
              \cup {LiveReq("POST", "json", <<"M">>, e, t) :
                       e \in {EAup, EApad}, t \in {Absent, "application"}},
     appr |-> {ApprReq("POST", "json", 1)},
     hook |-> {HookReq("valid", "json", "checkout.session.completed", r, EAup, 5000, "cs_1") :
                  r \in {NoId, 1}},
     ref |-> {RefReq("POST", "json", Click, CodeGood)}] @@ AnyFault

NextCase == Step(1, CaseInputs) \/ RefStep(1, CaseInputs)

SpecCase == Init /\ [][NextCase]_vars

\* the events of the error specification: for every handler one event per
\* early return (preflight, missing or malformed body, missing or ill-formed
\* field, unknown id) next to the submissions that pass
ErrInputs ==
    [reg |-> {RegReq("POST", "json", EAup, DefaultCourse, N1, "none", a) : a \in {NoId} \cup Ids}
             \cup {RegReq("POST", "json", EB, DefaultCourse, N1, "none", a) : a \in Ids}
             \cup {RegReq("POST", "json", EAup, "invalid-course-id", N1, "none", NoId),
                   RegReq("POST", "json", EAup, DefaultCourse, N1, Absent, NoId),
                   RegReq("OPTIONS", "none", NoStr, Absent, NoStr, Absent, NoId)},
     live |-> LiveReqs
              \cup {LiveReq("POST", b, NoStr, NoStr, Absent) : b \in {"none", "invalid"}}
              \cup {LiveReq("POST", "json", n, EApad, Absent) : n \in {NoStr, Blank}},
     appr |-> ApprReqs
              \cup {ApprReq("POST", b, NoId) : b \in {"none", "invalid"}},
     hook |-> {HookReq("valid", "json", "checkout.session.completed", r, EAup, 5000, "cs_1") :
                  r \in {NoId} \cup Ids},
     ref |-> RefReqs
             \cup {RefReq("POST", "json", Click, NoStr),
                   RefReq("POST", "json", <<>>, CodeGood),
                   RefReq("POST", "json", Click, Rep("a", MaxFieldLen + 1)),
                   RefReq("POST", "none", NoStr, NoStr)}] @@ AnyFault

NextErr == Step(1, ErrInputs) \/ RefStep(1, ErrInputs)

SpecErr == Init /\ [][NextErr]_vars

\* the events of the concurrent specification: submissions, approvals and
\* notifications about one address
ConcInputs ==
    [reg |-> {RegReq("POST", "json", EAup, DefaultCourse, N1, "none", a) : a \in {NoId, 1}},
     live |-> {LiveReq("POST", "json", N1pad, EApad, t) : t \in {Absent, "application"}},
     appr |-> {ApprReq("POST", "json", 1)},
     hook |-> {HookReq("valid", "json", "checkout.session.completed", r, EAup, 5000, "cs_1") :
                  r \in {NoId, 1}}
              \cup {HookReq("valid", "json", "invoice.paid", 1, EAup, 5000, "cs_1")},
     fails |-> {{}, {"user_email"}},
     times |-> {"t1"}]

\* the platform runs the invocations in parallel: their steps interleave
NextConc == \E p \in Procs : Step(p, ConcInputs)

SpecConc == Init /\ [][NextConc]_vars

\* invocations one after another, the answer of the one before kept in the
\* other slot: a slot starts only when no invocation is in progress
NextTurns ==
    \E p \in Procs :
        \/ \E req \in ConcInputs.reg : (\A q \in Procs \ {p} : Free(q)) /\ StartReg(p, req)
        \/ \E req \in ConcInputs.live : (\A q \in Procs \ {p} : Free(q)) /\ StartLive(p, req)
        \/ \E req \in ConcInputs.appr : (\A q \in Procs \ {p} : Free(q)) /\ StartAppr(p, req)
        \/ \E req \in ConcInputs.hook : (\A q \in Procs \ {p} : Free(q)) /\ StartHook(p, req)
        \/ Proceeds(p, ConcInputs)

SpecTurns == Init /\ [][NextTurns]_vars

\* the payment provider delivers one notification to slot 1 again and again
\* until a delivery is answered 200 (its retry-on-non-200), while submissions
\* for the same address arrive in slot 2; invocations run one after another
Notice == HookReq("valid", "json", "checkout.session.completed", 1, EAup, 5000, "cs_1")

Resubmission == RegReq("POST", "json", EAup, DefaultCourse, N1, "none", NoId)

Answered200 == inv[1].pc = "done" /\ inv[1].kind = "hook" /\ inv[1].resp.status = 200

Deliver == Free(1) /\ Free(2) /\ ~Answered200 /\ StartHook(1, Notice)

Delivery ==
    \/ \E dbok \in BOOLEAN : HookQuery(1, dbok)
    \/ \E dbok \in BOOLEAN, fail \in SUBSET {"user_email", "admin_email"} :
          HookUpdate(1, dbok, fail, "t1")

Submit == Free(1) /\ Free(2) /\ StartReg(2, Resubmission)

Submission ==
    \/ \E dbok \in BOOLEAN : RegGet(2, dbok)
    \/ \E dbok \in BOOLEAN, metaok \in BOOLEAN : RegPut(2, dbok, metaok)

NextRetry == Deliver \/ Delivery \/ Submit \/ Submission

\* a started invocation runs to its end, the provider keeps delivering, and
\* the index query, the update and the emails succeed again and again
RetryFairness ==
    /\ WF_vars(Delivery) /\ WF_vars(Submission)
    /\ SF_vars(Deliver)
    /\ SF_vars(HookQuery(1, TRUE))
    /\ SF_vars(HookUpdate(1, TRUE, {}, "t1"))

SpecRetry == Init /\ [][NextRetry]_vars /\ RetryFairness

(* ------------------------------------------------------------- claims *)
RegKey(l) == Key(l.req.course_id, l.email)

LiveKey(l) == Key(LiveCourse(LiveType(l.req)), l.email)

\* slot p takes a step of a `kind` invocation that stands at one of `pcs`
Steps(p, kind, pcs) == inv[p].kind = kind /\ inv[p].pc \in pcs /\ inv'[p] # inv[p]

Finished(p, kind) == inv[p].pc = "done" /\ inv[p].kind = kind

\* an optional attribute of an item
Attr(item, a) == IF a \in DOMAIN item THEN {item[a]} ELSE {}

PaymentView(item) ==
    <<item.payment_status, item.registration_id, item.stripe_session_id,
      Attr(item, "amount_paid"), Attr(item, "payment_date"), Attr(item, "payment_amount")>>

OthersKept(k) ==
    /\ DOMAIN table' = DOMAIN table \cup {k}
    /\ \A k2 \in DOMAIN table \ {k} : table'[k2] = table[k2]

\* C1: from its existence check on, a registration-handler invocation whose
\* (course_id, email) holds a paid record leaves the table as it is and, when
\* it returns, answers 400 email_already_registered.
C1_PaidRegistrationRejected ==
    [][\A p \in Procs :
          (/\ Steps(p, "reg", {"get", "put"})
           /\ HasItem(RegKey(inv[p]))
           /\ table[RegKey(inv[p])].payment_status = "paid")
          => /\ table' = table
             /\ inv'[p].pc = "done" => inv'[p].resp = Resp(400, "email_already_registered")]_vars

\* C2: a record that is paid keeps its status, its registration_id and its
\* payment fields in every step.
C2_PaidImmutable ==
    [][\A k \in DOMAIN table :
          table[k].payment_status = "paid"
          => k \in DOMAIN table' /\ PaymentView(table'[k]) = PaymentView(table[k])]_vars

\* C3: a verified checkout notification that resolved its reference id and
\* updated the table has marked exactly the record with that registration_id
\* paid, with the amount in major units and the session id, and answers 200.
C3_RoundTrip ==
    \A p \in Procs :
        (Finished(p, "hook") /\ inv[p].req.client_reference_id # NoId /\ inv[p].wrote)
        => LET k == Key(inv[p].item.course_id, inv[p].item.email)
           IN  /\ inv[p].item.registration_id = inv[p].req.client_reference_id
               /\ table[k].registration_id = inv[p].req.client_reference_id
               /\ table[k].payment_status = "paid"
               /\ table[k].amount_paid = CentsToDollars(inv[p].req.amount_total)
               /\ table[k].stripe_session_id = inv[p].req.session_id
               /\ inv[p].resp.status = 200

\* C4: a registration submission with a name whose (course_id, email) holds no
\* record passes the existence check and, at the write, returns 200 with an
\* id no earlier answer and no stored record carries, having stored, next to
\* the unchanged other records, one pending record with that id; only when
\* put_item itself fails does it return 500 instead, with nothing stored.
C4_NewRegistration ==
    [][\A p \in Procs :
          (/\ Steps(p, "reg", {"get", "put"})
           /\ ~HasItem(RegKey(inv[p]))
           /\ inv[p].req.name # NoStr)
          => LET k == RegKey(inv[p])
                 r == inv'[p].resp
             IN  /\ inv[p].pc = "get" => inv'[p].pc = "put" /\ table' = table
                 /\ inv[p].pc = "put" =>
                      /\ inv'[p].pc = "done"
                      /\ IF inv'[p].wrote
                         THEN /\ r.status = 200
                              /\ r.registration_id \notin returned
                              /\ \A k2 \in DOMAIN table :
                                    table[k2].registration_id # r.registration_id
                              /\ OthersKept(k)
                              /\ table'[k].payment_status = "pending"
                              /\ table'[k].registration_id = r.registration_id
                         ELSE r.status = 500 /\ table' = table]_vars

C4_Witness ==
    \E p \in Procs :
        /\ Finished(p, "reg") /\ inv[p].seen = "none" /\ inv[p].resp.status = 200
        /\ Cardinality(returned) >= 2
        /\ table[RegKey(inv[p])].registration_id = inv[p].resp.registration_id

\* C5: a registration submission with a name whose (course_id, email) holds a
\* record that is not paid passes the existence check and, at the write,
\* returns 200 with a new registration_id, the record under that key now being
\* the submission's data with status pending and the new id and the other
\* records unchanged; only when put_item itself fails does it return 500
\* instead, with nothing stored.
C5_Resubmission ==
    [][\A p \in Procs :
          (/\ Steps(p, "reg", {"get", "put"})
           /\ HasItem(RegKey(inv[p]))
           /\ table[RegKey(inv[p])].payment_status # "paid"
           /\ inv[p].req.name # NoStr)
          => LET k == RegKey(inv[p])
                 r == inv'[p].resp
             IN  /\ inv[p].pc = "get" => inv'[p].pc = "put" /\ table' = table
                 /\ inv[p].pc = "put" =>
                      /\ inv'[p].pc = "done"
                      /\ IF inv'[p].wrote
                         THEN /\ r.status = 200
                              /\ r.registration_id # table[k].registration_id
                              /\ OthersKept(k)
                              /\ DOMAIN table' = DOMAIN table
                              /\ table'[k].course_id = k[1] /\ table'[k].email = k[2]
                              /\ table'[k].name = inv[p].req.name
                              /\ table'[k].dietary_requirements = inv[p].req.dietary_requirements
                              /\ table'[k].payment_status = "pending"
                              /\ table'[k].registration_id = r.registration_id
                              /\ DOMAIN table'[k] \cap
                                   {"approval_date", "payment_date", "amount_paid",
                                    "registration_type", "payment_amount"} = {}
                         ELSE r.status = 500 /\ table' = table]_vars

C5_Witness ==
    \E p \in Procs :
        /\ Finished(p, "reg") /\ inv[p].seen \in {"pending", "applied"}
        /\ inv[p].resp.status = 200
        /\ table[RegKey(inv[p])].registration_id = inv[p].resp.registration_id
        /\ table[RegKey(inv[p])].name = N2

\* C6: every registration submission whose course_id is absent or not
\* allow-listed, whatever its other fields are, is answered 400
\* invalid_course_id and writes nothing.
C6_InvalidCourseAlways ==
    \A p \in Procs :
        (Finished(p, "reg") /\ ~CourseOk(inv[p].req.course_id))
        => inv[p].resp = Resp(400, "invalid_course_id") /\ ~inv[p].wrote

\* C6, the part the handler keeps: a registration submission whose course_id
\* is absent or not allow-listed makes no table call at all, whatever its
\* other fields; when it carries an email it is answered 400, with
\* invalid_course_id if dietary_requirements is non-empty and with
\* missing_required_field if not (dietary_requirements is validated first).
C6_InvalidCourse ==
    \A p \in Procs :
        (Finished(p, "reg") /\ ~CourseOk(inv[p].req.course_id))
        => /\ inv[p].ops = {} /\ ~inv[p].wrote /\ inv[p].fx = {}
           /\ (inv[p].req.body_kind = "json" /\ inv[p].req.email # NoStr)
              => inv[p].resp =
                   IF Truthy(inv[p].req.dietary_requirements)
                   THEN Resp(400, "invalid_course_id")
                   ELSE Resp(400, "missing_required_field")

C6_Witness ==
    \E p \in Procs :
        /\ Finished(p, "reg") /\ inv[p].req.course_id = "invalid-course-id"
        /\ inv[p].req.dietary_requirements = ""
        /\ inv[p].resp = Resp(400, "missing_required_field")
        /\ DOMAIN table # {}

\* C7: a payment notification without a signature header or with a signature
\* that fails verification is answered 400 in its first step, having made no
\* table call and sent nothing; the table is unchanged.
C7_BadSignature ==
    [][\A p \in Procs :
          (/\ inv'[p] # inv[p] /\ inv'[p].kind = "hook" /\ Free(p)
           /\ inv'[p].req.signature # "valid")
          => /\ inv'[p].pc = "done" /\ inv'[p].resp.status = 400
             /\ inv'[p].ops = {} /\ ~inv'[p].wrote /\ inv'[p].fx = {}
             /\ table' = table]_vars

C7_Witness ==
    \E p \in Procs :
        /\ Finished(p, "hook") /\ inv[p].req.signature = "tampered"
        /\ inv[p].resp = Resp(400, "Invalid signature")
        /\ \E k \in DOMAIN table :
              /\ table[k].registration_id = inv[p].req.client_reference_id
              /\ table[k].payment_status = "pending"

\* C8: a verified checkout notification whose lookup finds nothing (no item
\* with the reference id; or no reference id and no item for the billing
\* email in the default course) ends in that step with 404 (or, when the
\* lookup call itself fails, 500), the table unchanged and nothing sent.
C8_NotFound ==
    [][\A p \in Procs :
          (/\ Steps(p, "hook", {"query", "get"})
           /\ IF inv[p].pc = "query"
              THEN \A k \in DOMAIN table :
                      table[k].registration_id # inv[p].req.client_reference_id
              ELSE ~HasItem(Key(DefaultCourse, Lower(inv[p].req.email))))
          => /\ inv'[p].pc = "done"
             /\ inv'[p].resp \in {Resp(404, "Registration not found"),
                                  Resp(500, "Database query failed")}
             /\ ~inv'[p].wrote /\ inv'[p].fx = {}
             /\ table' = table]_vars

C8_Witness ==
    \E p \in Procs :
        /\ Finished(p, "hook") /\ inv[p].resp = Resp(404, "Registration not found")
        /\ inv[p].req.client_reference_id = NoId
        /\ HasItem(Key(LivestreamCourse, Lower(inv[p].req.email)))

\* C9: a verified checkout notification without a reference id looks up
\* (default course, lower-cased billing email); if that record exists and the
\* lookup succeeds the handler goes on to the update, and its update sets
\* exactly that record to paid with the notified amount and session, leaving
\* every other record, those of the same email in other courses included, as
\* it was.
C9_FallbackResolution ==
    [][\A p \in Procs :
          (/\ Steps(p, "hook", {"get", "update"})
           /\ inv[p].req.client_reference_id = NoId)
          => LET k == Key(DefaultCourse, Lower(inv[p].req.email))
             IN  /\ (inv[p].pc = "get" /\ HasItem(k)) =>
                      /\ table' = table
                      /\ \/ /\ inv'[p].pc = "update"
                            /\ inv'[p].item.registration_id = table[k].registration_id
                            /\ Key(inv'[p].course_id, inv'[p].item.email) = k
                         \/ /\ inv'[p].pc = "done"
                            /\ inv'[p].resp = Resp(500, "Database query failed")
                 /\ inv[p].pc = "update" =>
                      IF inv'[p].wrote
                      THEN /\ OthersKept(k) /\ DOMAIN table' = DOMAIN table
                           /\ table'[k] = PaidAttrs(inv[p].req, table'[k].payment_date) @@ table[k]
                           /\ table'[k].payment_status = "paid"
                      ELSE table' = table]_vars

C9_Witness ==
    \E p \in Procs :
        /\ Finished(p, "hook") /\ inv[p].req.client_reference_id = NoId /\ inv[p].wrote
        /\ inv[p].req.email = EAup
        /\ HasItem(Key(LivestreamCourse, EA))
        /\ table[Key(LivestreamCourse, EA)].payment_status = "pending"
        /\ table[Key(DefaultCourse, EA)].payment_status = "paid"

\* C10: from its existence check on, a livestream/application invocation whose
\* (course_id, email) holds a record leaves the table as it is and, when it
\* returns, answers 409.
C10_LivestreamConflict ==
    [][\A p \in Procs :
          (Steps(p, "live", {"get", "put"}) /\ HasItem(LiveKey(inv[p])))
          => /\ table' = table
             /\ inv'[p].pc = "done" =>
                  inv'[p].resp = Resp(409, "Registration already exists for this email")]_vars

\* C11: a livestream-handler submission with non-empty name and email whose
\* (course, email) holds no record passes the existence check and, at the
\* write, returns 200 with a registration_id no earlier answer and no stored
\* record carries, having added exactly one record, under the stripped and
\* lower-cased email: for type livestream (given or by default) in course
\* tax-livestream-01 with status paid and payment amount 0, for type
\* application in course 01_ai_automation_for_non_coders with status applied
\* and payment amount 0; only when put_item itself fails does it return 500
\* instead, with nothing stored.
C11_LivestreamCreates ==
    [][\A p \in Procs :
          (Steps(p, "live", {"get", "put"}) /\ ~HasItem(LiveKey(inv[p])))
          => LET k == LiveKey(inv[p])
                 r == inv'[p].resp
                 application == inv[p].req.registration_type = "application"
             IN  /\ inv[p].pc = "get" => inv'[p].pc = "put" /\ table' = table
                 /\ inv[p].pc = "put" =>
                      /\ inv'[p].pc = "done"
                      /\ IF inv'[p].wrote
                         THEN /\ r.status = 200
                              /\ r.registration_id \notin returned
                              /\ \A k2 \in DOMAIN table :
                                    table[k2].registration_id # r.registration_id
                              /\ OthersKept(k)
                              /\ Cardinality(DOMAIN table') = Cardinality(DOMAIN table) + 1
                              /\ k = Key(IF application THEN DefaultCourse ELSE LivestreamCourse,
                                         Lower(Strip(inv[p].req.email)))
                              /\ table'[k].course_id = k[1] /\ table'[k].email = k[2]
                              /\ table'[k].registration_id = r.registration_id
                              /\ table'[k].payment_status =
                                    IF application THEN "applied" ELSE "paid"
                              /\ table'[k].payment_amount = 0
                         ELSE r.status = 500 /\ table' = table]_vars

C11_Witness ==
    \E p \in Procs :
        /\ Finished(p, "live") /\ inv[p].seen = "none" /\ inv[p].resp.status = 200
        /\ inv[p].req.registration_type = "application"
        /\ table[Key(DefaultCourse, EA)].payment_status = "applied"
        /\ table[Key(DefaultCourse, EA)].registration_id = inv[p].resp.registration_id
        /\ HasItem(Key(LivestreamCourse, EA))
        /\ table[Key(LivestreamCourse, EA)].payment_status = "paid"
        /\ "payment_amount" \in DOMAIN table[Key(LivestreamCourse, EA)]
        /\ table[Key(LivestreamCourse, EA)].payment_amount = 0

\* C12: a payment notification that has resolved its record and marked it
\* paid answers 200, whichever of the confirmation email, the operator
\* notification and the Purchase event failed.
C12_WebhookEffectsIsolated ==
    \A p \in Procs :
        (Finished(p, "hook") /\ inv[p].wrote) => inv[p].resp = Resp(200, "")

\* C13: when the write of a registration-handler or livestream-handler
\* invocation has gone through, the answer is 200 with the registration_id
\* of the record just stored, the record is the one built from the
\* submission, and every side effect of the handler has been attempted (the
\* CompleteRegistration event; for the livestream handler also the two
\* emails), whichever of them failed.
C13_EffectsIsolated ==
    [][\A p \in Procs :
          (/\ inv[p].kind \in {"reg", "live"} /\ inv[p].pc = "put"
           /\ inv'[p] # inv[p] /\ inv'[p].wrote)
          => LET l == inv[p]
                 id == inv'[p].resp.registration_id
                 item == IF l.kind = "reg" THEN RegItem(l, id) ELSE LiveItem(l, id)
             IN  /\ inv'[p].pc = "done"
                 /\ inv'[p].resp = RespId(200, id) /\ id # NoId
                 /\ table' = PutItem(table, item)
                 /\ inv'[p].fx = IF l.kind = "reg" THEN {"meta"} ELSE Effects
                 /\ inv'[p].fxfail \subseteq inv'[p].fx]_vars

C13_Witness ==
    \E p \in Procs :
        /\ Finished(p, "live") /\ inv[p].wrote
        /\ inv[p].fx = Effects /\ inv[p].fxfail = {"user_email"}
        /\ inv[p].resp.status = 200
        /\ table[LiveKey(inv[p])].registration_id = inv[p].resp.registration_id

\* C14: a step that ends a registration, livestream/application, approval or
\* referral invocation with a 4xx answer changes neither table, and that
\* invocation has made no table write and attempted no email and no analytics
\* event.
C14_ClientErrorsNoEffect ==
    [][\A p \in Procs :
          (/\ inv'[p] # inv[p] /\ inv'[p].kind \in {"reg", "live", "appr", "ref"}
           /\ inv'[p].pc = "done" /\ inv'[p].resp.status \in 400 .. 499)
          => /\ table' = table /\ events' = events
             /\ ~inv'[p].wrote /\ inv'[p].ops \cap {"put", "update"} = {}
             /\ inv'[p].fx = {}]_vars

C14_Witness ==
    \E p \in Procs :
        /\ Finished(p, "appr")
        /\ inv[p].resp = Resp(400, "Application is not in applied status")
        /\ inv[p].seen = "paid" /\ inv[p].ops = {"scan"}
        /\ DOMAIN events # {}

\* C15: a registration or livestream/application invocation whose existence
\* lookup (get_item) failed ends with a 500 answer and has written no record.
C15_LookupFailureAborts ==
    \A p \in Procs :
        (Finished(p, inv[p].kind) /\ inv[p].kind \in {"reg", "live"} /\ inv[p].seen = "failed")
        => inv[p].resp.status = 500 /\ ~inv[p].wrote

\* C16: a registration submission (a JSON body) without email, without name
\* or without dietary_requirements is answered 400 missing_required_field and
\* writes no record.
C16_MissingFieldRejected ==
    \A p \in Procs :
        (/\ Finished(p, "reg") /\ inv[p].req.body_kind = "json"
         /\ \/ inv[p].req.email = NoStr
            \/ inv[p].req.name = NoStr
            \/ ~Truthy(inv[p].req.dietary_requirements))
        => inv[p].resp = Resp(400, "missing_required_field") /\ ~inv[p].wrote

UpperChars ==
    {"A", "B", "C", "D", "E", "F", "G", "H", "I", "J", "K", "L", "M",
     "N", "O", "P", "Q", "R", "S", "T", "U", "V", "W", "X", "Y", "Z"}

\* the spellings of the address a@x that differ in letter case only (EApad
\* also in surrounding blanks, which the livestream handler strips)
Spellings == {EA, EAup, EAmix, EApad}

\* C17: every stored email contains no upper-case letter and is the email of
\* its key; a registration or livestream invocation whose email is a@x in
\* any spelling works on the key (course_id, a@x), exactly as a submission
\* spelled a@x does: what its lookup sees is what that key holds, however the
\* record's submission spelled the address (or nothing, when the call
\* fails); a record seen makes it a duplicate (livestream: 409;
\* registration: 400 for a paid record, else the record is replaced); and a
\* write stores under that key, so no second record for the address appears.
C17_EmailCaseInsensitive ==
    /\ [](\A k \in DOMAIN table :
             /\ table[k].email = k[2]
             /\ \A i \in DOMAIN k[2] : k[2][i] \notin UpperChars)
    /\ [][\A p \in Procs :
            (/\ Steps(p, inv[p].kind, {"get", "put"}) /\ inv[p].kind \in {"reg", "live"}
             /\ inv[p].req.email \in Spellings)
            => LET l == inv[p]
                   live == l.kind = "live"
                   k == Key(IF live THEN LiveCourse(LiveType(l.req)) ELSE l.req.course_id, EA)
               IN  /\ l.pc = "get" =>
                        /\ inv'[p].seen \in
                              {"failed", IF HasItem(k) THEN table[k].payment_status ELSE "none"}
                        /\ inv'[p].seen \in {"failed", "none"} => inv'[p].pc = "put"
                        /\ inv'[p].seen \notin {"failed", "none"} =>
                              IF live
                              THEN inv'[p].resp =
                                      Resp(409, "Registration already exists for this email")
                              ELSE IF table[k].payment_status = "paid"
                              THEN inv'[p].resp = Resp(400, "email_already_registered")
                              ELSE inv'[p].pc = "put"
                   /\ (l.pc = "put" /\ inv'[p].wrote) =>
                        /\ DOMAIN table' = DOMAIN table \cup {k}
                        /\ table'[k].registration_id = inv'[p].resp.registration_id]_vars

C17_Witness ==
    \E p \in Procs :
        /\ Finished(p, "live") /\ inv[p].req.email = EAup
        /\ inv[p].resp = Resp(409, "Registration already exists for this email")
        /\ DOMAIN table = {Key(DefaultCourse, EA)}
        /\ table[Key(DefaultCourse, EA)].name = N1
        /\ table[Key(DefaultCourse, EA)].payment_status = "applied"

\* what C18 accepts: both fields present and non-empty, each at most 100
\* characters, every character of referral_code a letter, digit, underscore
\* or hyphen
RefWellFormed(req) ==
    /\ TruthySeq(req.event_name) /\ TruthySeq(req.referral_code)
    /\ Len(req.event_name) <= MaxFieldLen /\ Len(req.referral_code) <= MaxFieldLen
    /\ \A i \in DOMAIN req.referral_code : req.referral_code[i] \in CodeChars

\* C18: a referral submission with a JSON body that is well-formed is
\* answered 200 with the event_id of the one event it stored (500, nothing
\* stored, only when put_item itself fails); every other one is answered 400
\* and stores nothing.
C18_ReferralValidation ==
    \A p \in Procs :
        (Finished(p, "ref") /\ inv[p].req.body_kind = "json")
        => IF RefWellFormed(inv[p].req)
           THEN IF inv[p].wrote
                THEN /\ inv[p].resp.status = 200
                     /\ inv[p].resp.event_id \in DOMAIN events
                     /\ events[inv[p].resp.event_id].referral_code = inv[p].req.referral_code
                ELSE inv[p].resp.status = 500
           ELSE inv[p].resp.status = 400 /\ ~inv[p].wrote

\* C19: a registration, livestream/application, approval or referral
\* invocation whose method is OPTIONS is answered 200 and has made no table
\* call.  (The Access-Control headers are the same constants on every answer
\* of these handlers and are not part of the state.)
C19_PreflightAnswered ==
    \A p \in Procs :
        (/\ inv[p].pc = "done" /\ inv[p].kind \in {"reg", "live", "appr", "ref"}
         /\ inv[p].req.method = "OPTIONS")
        => inv[p].resp.status = 200 /\ inv[p].ops = {} /\ ~inv[p].wrote

\* C20: whenever a payment-webhook invocation writes to a record, the record
\* is pending immediately before the write (so, the write making it paid, no
\* record is written by the webhook twice).
C20_OnlyPendingToPaid ==
    [][\A p \in Procs :
          (Steps(p, "hook", {"update"}) /\ inv'[p].wrote)
          => LET k == Key(inv[p].course_id, inv[p].item.email)
             IN  HasItem(k) /\ table[k].payment_status = "pending"]_vars

\* C21: when a registration invocation that saw no record under its key
\* writes while another registration invocation, which also saw no record
\* under that key, has already written there, both are answered 200, with
\* different registration_ids, the key holds the record of the later write
\* and the table gains no second record.
C21_RegistrationRace ==
    [][\A p, q \in Procs :
          (/\ p # q
           /\ inv[p].kind = "reg" /\ inv[p].pc = "put" /\ inv[p].seen = "none"
           /\ inv'[p] # inv[p] /\ inv'[p].wrote
           /\ Finished(q, "reg") /\ inv[q].seen = "none" /\ inv[q].wrote
           /\ RegKey(inv[q]) = RegKey(inv[p]))
          => LET k == RegKey(inv[p])
             IN  /\ inv[q].resp.status = 200 /\ inv'[p].resp.status = 200
                 /\ inv'[p].resp.registration_id # inv[q].resp.registration_id
                 /\ DOMAIN table' = DOMAIN table
                 /\ table'[k].registration_id = inv'[p].resp.registration_id
                 /\ \A k2 \in DOMAIN table \ {k} : table'[k2] = table[k2]]_vars

C21_Witness ==
    \E p, q \in Procs :
        /\ p # q /\ Finished(p, "reg") /\ Finished(q, "reg")
        /\ inv[p].seen = "none" /\ inv[q].seen = "none" /\ inv[p].wrote /\ inv[q].wrote
        /\ RegKey(inv[p]) = RegKey(inv[q])
        /\ inv[p].resp.status = 200 /\ inv[q].resp.status = 200
        /\ inv[p].resp.registration_id = 1 /\ inv[q].resp.registration_id = 2
        /\ table[RegKey(inv[p])].registration_id = 2
        /\ Cardinality(DOMAIN table) = 1

\* C22: once a delivery of a verified notification carrying a reference id
\* has marked its record paid, a further delivery of the same notification,
\* whatever invocations ran in between, resolves to the same record (it is
\* not answered 404), and after its update the record is paid with the
\* notified amount and session and the registration_id of the notification.
C22_RedeliverySafe ==
    [][\A p, q \in Procs :
          (/\ p # q
           /\ Finished(p, "hook") /\ inv[p].wrote /\ inv[p].req.client_reference_id # NoId
           /\ Steps(q, "hook", {"query", "update"}) /\ inv[q].req = inv[p].req)
          => LET k == Key(inv[p].item.course_id, inv[p].item.email)
             IN  /\ inv[q].pc = "query" =>
                      /\ inv'[q].resp.status # 404
                      /\ inv'[q].pc = "update" => inv'[q].item = inv[p].item
                 /\ (inv[q].pc = "update" /\ inv'[q].wrote) =>
                      /\ table'[k].payment_status = "paid"
                      /\ table'[k].registration_id = inv[p].req.client_reference_id
                      /\ table'[k].amount_paid = CentsToDollars(inv[p].req.amount_total)
                      /\ table'[k].stripe_session_id = inv[p].req.session_id]_vars

\* a record carries a payment field: an amount paid, a payment timestamp or
\* a non-empty provider session id (payment_amount, which the livestream
\* handler stores as 0, is not one of them)
HasPayment(item) ==
    \/ "amount_paid" \in DOMAIN item
    \/ "payment_date" \in DOMAIN item
    \/ item.stripe_session_id # ""

C24_StaleReferenceRejected ==
    [][\A p, q \in Procs :
          /\ (/\ p # q
              /\ Finished(q, "reg") /\ inv[q].wrote /\ inv[q].seen = "pending"
              /\ table[RegKey(inv[q])].registration_id = inv[q].resp.registration_id
              /\ table[RegKey(inv[q])].payment_status = "pending"
              /\ Steps(p, "hook", {"query"})
              /\ inv[p].req.client_reference_id \in returned
              /\ \A k \in DOMAIN table :
                    table[k].registration_id # inv[p].req.client_reference_id)
             => /\ inv'[p].pc = "done" /\ ~inv'[p].wrote
                /\ inv'[p].resp \in {Resp(404, "Registration not found"),
                                     Resp(500, "Database query failed")}
                /\ table' = table
                /\ table'[RegKey(inv[q])].payment_status = "pending"
                /\ table'[RegKey(inv[q])].registration_id = inv[q].resp.registration_id
          /\ \A k \in DOMAIN table :
                (/\ Steps(p, "hook", {"query", "get", "update"})
                 /\ table[k].payment_status = "pending"
                 /\ table'[k].payment_status = "paid")
                => /\ inv[p].pc = "update" /\ inv'[p].wrote
                   /\ k = Key(inv[p].course_id, inv[p].item.email)
                   /\ inv[p].req.client_reference_id \in {NoId, table[k].registration_id}
                   /\ inv[p].req.client_reference_id = NoId
                         => k = Key(DefaultCourse, Lower(inv[p].req.email))]_vars

\* the resubmission was answered with id 2, the notification carrying id 1
\* with 404, and the record is pending with id 2
C24_Witness ==
    \E p, q \in Procs :
        /\ Finished(q, "reg") /\ inv[q].wrote /\ inv[q].seen = "pending"
        /\ inv[q].resp.registration_id = 2
        /\ Finished(p, "hook") /\ inv[p].req.client_reference_id = 1
        /\ inv[p].resp = Resp(404, "Registration not found")
        /\ table[RegKey(inv[q])].payment_status = "pending"
        /\ table[RegKey(inv[q])].registration_id = 2

\* C25: no step of a registration-handler, livestream-handler or webhook
\* invocation changes the status of, or overwrites, a record whose status is
\* applied: every applied record is after the step what it was before.
C25_AppliedOnlyApproved ==
    [][\A p \in Procs :
          (inv'[p] # inv[p] /\ inv'[p].kind \in {"reg", "live", "hook"})
          => \A k \in DOMAIN table :
                table[k].payment_status = "applied"
                => k \in DOMAIN table' /\ table'[k] = table[k]]_vars

\* C26 (as stated): an approval writes only when the record found for
\* application_id has status applied at the moment of the write.
C26_AppliedAtWrite ==
    [][\A p \in Procs :
          (Steps(p, "appr", {"update"}) /\ inv'[p].wrote)
          => LET k == Key(inv[p].item.course_id, inv[p].item.email)
             IN  HasItem(k) /\ table[k].payment_status = "applied"]_vars

\* C26 (amended): the approval's scan answers 404 when no record carries
\* application_id and 400 when the record it finds is not applied at that
\* moment (500 when the scan fails), in each case without a write then or
\* later; only an invocation whose scan found the record applied writes, and
\* its write sets payment_status to pending and approval_date on the record
\* under the key it read, leaving that record's registration_id and other
\* attributes and every other record as they were.
C26_AppliedAtRead ==
    [][\A p \in Procs :
          /\ Steps(p, "appr", {"scan"}) =>
                /\ table' = table
                /\ (\A k \in DOMAIN table :
                       table[k].registration_id # inv[p].req.application_id)
                   => inv'[p].pc = "done"
                      /\ inv'[p].resp \in {Resp(404, "Application not found"),
                                           Resp(500, "Database error")}
                /\ \A k \in DOMAIN table :
                      (/\ table[k].registration_id = inv[p].req.application_id
                       /\ table[k].payment_status # "applied")
                      => inv'[p].pc = "done"
                         /\ inv'[p].resp \in {Resp(400, "Application is not in applied status"),
                                              Resp(500, "Database error")}
                /\ inv'[p].pc = "update" =>
                      /\ inv'[p].seen = "applied"
                      /\ \E k \in DOMAIN table :
                            /\ table[k].registration_id = inv[p].req.application_id
                            /\ table[k].payment_status = "applied"
                            /\ k = Key(inv'[p].item.course_id, inv'[p].item.email)
          /\ Steps(p, "appr", {"update"}) =>
                LET k == Key(inv[p].item.course_id, inv[p].item.email)
                IN  IF inv'[p].wrote
                    THEN /\ inv[p].seen = "applied"
                         /\ HasItem(k) /\ DOMAIN table' = DOMAIN table
                         /\ table'[k].payment_status = "pending"
                         /\ "approval_date" \in DOMAIN table'[k]
                         /\ table'[k].registration_id = table[k].registration_id
                         /\ \A a \in DOMAIN table[k] \ {"payment_status", "approval_date"} :
                               table'[k][a] = table[k][a]
                         /\ \A k2 \in DOMAIN table \ {k} : table'[k2] = table[k2]
                    ELSE table' = table
          /\ (inv'[p].kind = "appr" /\ inv'[p].pc = "done"
                /\ inv'[p].resp.status \in {400, 404})
             => ~inv'[p].wrote /\ "update" \notin inv'[p].ops]_vars

\* two approvals of the same application read it as applied before either
\* wrote, and both were answered 200
C26_Witness ==
    \E p, q \in Procs :
        /\ p # q /\ Finished(p, "appr") /\ Finished(q, "appr")
        /\ inv[p].req = inv[q].req
        /\ inv[p].wrote /\ inv[q].wrote
        /\ inv[p].resp.status = 200 /\ inv[q].resp.status = 200
        /\ \E k \in DOMAIN table :
              /\ table[k].registration_id = inv[p].req.application_id
              /\ table[k].payment_status = "pending"

\* C27: a submission with applicant_id scans for the record carrying that
\* registration_id before it looks at its own key: when there is none it is
\* answered 400 invalid_application, when the record is not pending 400
\* invalid_application_status, when the record's email differs from the
\* submitted one 400 email_mismatch (500 application_verification_error when
\* the scan fails), each without a table call after the scan; it goes on to
\* the create/overwrite path, and so can write, only after a scan that found
\* a pending record with its email.
C27_ApplicantVerified ==
    [][\A p \in Procs :
          /\ Steps(p, "reg", {"scan"}) =>
                LET failed == Resp(500, "application_verification_error")
                    matches == {k \in DOMAIN table :
                                   table[k].registration_id = inv[p].req.applicant_id}
                IN  /\ table' = table /\ ~inv'[p].wrote
                    /\ inv'[p].pc \in {"done", "get"}
                    /\ inv'[p].pc = "done" => inv'[p].ops = {"scan"}
                    /\ matches = {} =>
                          inv'[p].pc = "done"
                          /\ inv'[p].resp \in {Resp(400, "invalid_application"), failed}
                    /\ \A k \in matches :
                          /\ table[k].payment_status # "pending" =>
                                inv'[p].pc = "done"
                                /\ inv'[p].resp \in {Resp(400, "invalid_application_status"), failed}
                          /\ (table[k].payment_status = "pending"
                                /\ table[k].email # inv[p].email) =>
                                inv'[p].pc = "done"
                                /\ inv'[p].resp \in {Resp(400, "email_mismatch"), failed}
                    /\ inv'[p].pc = "get" =>
                          \E k \in matches : /\ table[k].payment_status = "pending"
                                             /\ table[k].email = inv[p].email
          /\ (inv'[p].kind = "reg" /\ inv'[p].req.applicant_id # NoId
                /\ (inv'[p].pc \in {"get", "put"} \/ inv'[p].wrote
                      \/ inv'[p].ops \cap {"get", "put"} # {}))
             => "scan" \in inv'[p].ops]_vars

\* a submission naming an approved application of another address was
\* answered email_mismatch after its scan
C27_Witness ==
    \E p \in Procs :
        /\ Finished(p, "reg") /\ inv[p].req.applicant_id = 1
        /\ inv[p].resp = Resp(400, "email_mismatch")
        /\ inv[p].ops = {"scan"} /\ ~inv[p].wrote
        /\ \E k \in DOMAIN table :
              /\ table[k].registration_id = 1 /\ table[k].payment_status = "pending"
              /\ table[k].email # inv[p].email

\* C28: in every reachable state, under any interleaving, every record is
\* stored under its own (course_id, email), so no key holds two records, and
\* no two records carry the same registration_id: a registration_id resolves
\* to at most one record.
C28_KeysAndIdsUnique ==
    /\ \A k \in DOMAIN table :
          /\ k = Key(table[k].course_id, table[k].email)
          /\ "registration_id" \in DOMAIN table[k]
          /\ table[k].registration_id \in returned
    /\ \A k1, k2 \in DOMAIN table :
          table[k1].registration_id = table[k2].registration_id => k1 = k2
    /\ \A id \in Ids :
          Cardinality({k \in DOMAIN table : table[k].registration_id = id}) <= 1

\* two records, of the same address in two courses, with different ids
C28_Witness ==
    /\ Cardinality(DOMAIN table) = 2
    /\ \E k1, k2 \in DOMAIN table :
          /\ k1 # k2 /\ k1[2] = k2[2]
          /\ table[k1].registration_id = 1 /\ table[k2].registration_id = 2
    /\ \E p \in Procs : Finished(p, "live") /\ inv[p].wrote

\* C29: the provider redelivering the notification until a delivery is
\* answered 200, the database and email calls succeeding again and again:
\* once a delivery has marked the record carrying the notification's
\* reference id paid, eventually a delivery is answered 200 while that record
\* is paid, whatever submissions arrive in between (a paid record's
\* registration_id is not replaced, so every redelivery finds the record).
C29_RedeliveryConverges ==
    (\E k \in DOMAIN table :
        /\ table[k].registration_id = Notice.client_reference_id
        /\ table[k].payment_status = "paid")
    ~> (/\ Answered200
        /\ \E k \in DOMAIN table :
              /\ table[k].registration_id = Notice.client_reference_id
              /\ table[k].payment_status = "paid")

\* the attributes the webhook's update names
PaymentAttrs == {"payment_status", "payment_date", "stripe_session_id", "amount_paid"}

\* C30: under any interleaving, a step of a webhook invocation changes the
\* table only when it is the invocation's update and the write goes through,
\* and then only the record under the resolved (course_id, email), of which
\* no attribute other than payment_status, payment_date, stripe_session_id
\* and amount_paid changes or disappears (registration_id, course_id, email
\* and the profile fields stay); no record is added and every other record
\* is as it was.  A verified notification of a type other than
\* checkout.session.completed is answered 200 at once, without a table call
\* or a side effect.
C30_WebhookFrame ==
    [][\A p \in Procs :
          (inv'[p] # inv[p] /\ inv'[p].kind = "hook")
          => /\ IF inv[p].kind = "hook" /\ inv[p].pc = "update" /\ inv'[p].wrote
                THEN LET k == Key(inv[p].course_id, inv[p].item.email)
                     IN  /\ HasItem(k) /\ DOMAIN table' = DOMAIN table
                         /\ \A k2 \in DOMAIN table \ {k} : table'[k2] = table[k2]
                         /\ DOMAIN table'[k] = DOMAIN table[k] \cup PaymentAttrs
                         /\ \A a \in DOMAIN table[k] \ PaymentAttrs :
                               table'[k][a] = table[k][a]
                         /\ table'[k].payment_status = "paid"
                ELSE table' = table
             /\ (/\ Free(p)
                 /\ inv'[p].req.signature = "valid" /\ inv'[p].req.payload = "json"
                 /\ inv'[p].req.type # "checkout.session.completed")
                => /\ inv'[p].pc = "done" /\ inv'[p].resp = Resp(200, "")
                   /\ inv'[p].ops = {} /\ inv'[p].fx = {} /\ ~inv'[p].wrote]_vars

\* one notification has marked its record paid, the record keeping its
\* registration_id and profile fields; an invoice.paid notification was
\* answered 200 without a table call
C30_Witness ==
    \E p, q \in Procs :
        /\ Finished(p, "hook") /\ inv[p].wrote
        /\ LET k == Key(inv[p].course_id, inv[p].item.email)
           IN  /\ HasItem(k)
               /\ {"registration_id", "name", "referral_source"} \subseteq DOMAIN table[k]
               /\ table[k].payment_status = "paid"
               /\ table[k].registration_id = inv[p].req.client_reference_id
               /\ table[k].name = N1
               /\ table[k].referral_source = "direct"
        /\ Finished(q, "hook") /\ inv[q].req.type = "invoice.paid"
        /\ inv[q].resp = Resp(200, "") /\ inv[q].ops = {}

====
